---- MODULE Spec2Model ----
(***************************************************************************)
(* auto-pipeline: the trigger-and-cascade orchestrator of src/src/index.ts. *)
(*                                                                         *)
(* One run of main(): the constructor reads the environment, the projects  *)
(* are loaded and selected (command line or prompts), and for each         *)
(* selected project triggerPipeline creates a pipeline and, when           *)
(* AUTO_RUN_MANUAL_JOBS is 'true', runAllManualJobs polls for manual jobs   *)
(* and plays them.  Every await of the code is a step of the model: the    *)
(* position of an async call is the await it is suspended on, and the      *)
(* action taken there is the resumption of that await.  Each call of       *)
(* triggerPipeline is a task of its own (a promise); the orchestrator loop *)
(* starts task i and awaits it before it goes on.  The platform (GitLab)   *)
(* is the environment: it assigns pipeline ids, materializes jobs          *)
(* asynchronously and moves them through their statuses.                   *)
(*                                                                         *)
(* Spec is the whole run; SpecFair adds that requests are answered and     *)
(* timers fire; SpecOptions and SpecVariables are the runs with the        *)
(* cascade off over the strings of the command line and over the entries   *)
(* of the environment.                                                     *)
(***************************************************************************)
EXTENDS Integers, Sequences, FiniteSets, TLC

VARIABLES
    env,              \* process.env: [host, token, auto], NoOption when not set,
                      \* and vars, its other entries in the order of Object.entries
    options,          \* CLIOptions: [project, branch]; project is the set holding
                      \* the string given with -p, empty when it is undefined
    opc,              \* position of main / runWithOptions / interactiveFlow
    selectedProjects, \* the projects the loop iterates over
    branch,           \* the ref used for all selected projects
    idx,              \* number of loop iterations started
    exitCode,         \* the exit code of the process, -1 while it runs
    tpc,              \* tpc[i]: position of the i-th triggerPipeline call
    pipelineId,       \* pipelineId[i]: response.data.id of task i
    retryCount,       \* retryCount[i]
    manualJobs,       \* manualJobs[i]
    jobIdx,           \* jobIdx[i]: position of the for-of loop over manualJobs
    err,              \* err[i]: the error propagating in task i
    pipelines,        \* the platform: pipelines created, with their jobs
    moves,            \* number of status changes the platform has made on its own
    events            \* what the run did: API calls, delays, console lines

vars == <<env, options, opc, selectedProjects, branch, idx, exitCode, tpc,
          pipelineId, retryCount, manualJobs, jobIdx, err, pipelines, moves, events>>

orchVars == <<opc, selectedProjects, branch, idx, exitCode>>
taskVars == <<tpc, pipelineId, retryCount, manualJobs, jobIdx, err>>
inputVars == <<env, options>>
platformVars == <<pipelines, moves>>

-----------------------------------------------------------------------------
(* Bounds                                                                  *)

\* number of entries of projects.json
NumProjects == 2
\* number of names in the -p argument
MaxNames == 2
\* number of jobs a pipeline defines
MaxJobs == 2
\* number of status changes the platform makes on its own during a run
MaxMoves == 3
\* number of parts of the string given with -p
MaxParts == 3
\* number of entries of process.env besides the three the constructor reads
MaxVars == 2

-----------------------------------------------------------------------------
(* Values                                                                  *)

NoOption == "undefined"
NoError == "none"

ProjectNames == <<"Web Separation", "Web Core", "Web Trade", "Web Admin">>

\* projects.json as loadProjects returns it
AllProjects == [i \in 1..NumProjects |-> [id |-> 38 + i, name |-> ProjectNames[i]]]

OptionNames == {ProjectNames[i] : i \in 1..NumProjects} \cup {"Unknown"}

\* The string given with -p is the sequence of its parts: names, commas and
\* blanks.
OptionParts == OptionNames \cup {",", " "}

OptionStrings == UNION {[1..k -> OptionParts] : k \in 0..MaxParts}

Branches == {"main", "develop"}

\* values of GITLAB_HOST and GITLAB_PRIVATE_TOKEN
HostValues == {NoOption, "", "https://gitlab.example.com"}
TokenValues == {NoOption, "", "glpat-token"}

\* values of AUTO_RUN_MANUAL_JOBS
AutoRunValues == {"true", "TRUE", NoOption}

\* A key of process.env is a string, here the sequence of its parts: the
\* prefix 'VARIABLE_' is one part, and no other part holds it or a piece of it.
Prefix == <<"VARIABLE_">>

EnvKeys == {<<"VARIABLE_", "ENV">>, <<"VARIABLE_", "VARIABLE_", "X">>, <<"VARIABLE_">>,
            <<"OTHER">>, <<"X", "VARIABLE_">>, <<"variable_", "X">>}

EnvValues == {"prod", ""}

\* Object.entries(process.env): entries with distinct keys, in insertion order
EnvMaps ==
    {m \in UNION {[1..k -> [key : EnvKeys, value : EnvValues]] : k \in 0..MaxVars} :
        \A a, b \in DOMAIN m : a # b => m[a].key # m[b].key}

\* an environment with one variable to pass on and one unrelated entry
ExampleVars == <<[key |-> <<"VARIABLE_", "ENV">>, value |-> "prod"],
                 [key |-> <<"OTHER">>, value |-> "x"]>>

JobStatuses == {"created", "pending", "manual", "running", "success", "failed",
                "canceled", "skipped"}

\* HTTP failures of the platform, by kind
CreateErrors == {"AuthError", "NotFoundError", "ValidationError", "TransientError"}
ListErrors == {"AuthError", "TransientError"}
PlayErrors == {"TransientError"}

ApiOps == {"createPipeline", "listJobs", "playJob"}

Tasks == 1..NumProjects

SeqsUpTo(S, n) == UNION {[1..k -> S] : k \in 0..n}

Range(s) == {s[i] : i \in DOMAIN s}

RECURSIVE Join(_, _)
\* names.join(sep)
Join(names, sep) ==
    IF Len(names) = 0 THEN <<>>
    ELSE IF Len(names) = 1 THEN <<names[1]>>
    ELSE <<names[1], sep>> \o Join(Tail(names), sep)

\* the command lines of a run: no -p, or -p with names joined by commas
CommandLines ==
    {{}} \cup {{Join(l, ",")} : l \in SeqsUpTo(OptionNames, MaxNames)}

-----------------------------------------------------------------------------
(* The platform                                                            *)

\* the n-th pipeline id the platform assigns
PipelineIdOf(n) == 100 + n

\* the platform-wide id of job slot s of pipeline pid
JobIdOf(pid, s) == pid * 10 + s

JobSlots == 1..MaxJobs

\* the `manual` field of a job: a property of its definition, not its status
ManualField(s) == s % 2 = 1

\* a job the platform has not created yet
Absent == "absent"

NoJobs == [s \in JobSlots |-> Absent]

\* the Job object the API returns for slot s of pipeline p
JobOf(p, s) == [id |-> JobIdOf(p.id, s), status |-> p.jobs[s], manual |-> ManualField(s)]

\* the orders in which the platform may return the slots in S
Orderings(S) ==
    {o \in [1..Cardinality(S) -> S] : \A a, b \in DOMAIN o : a # b => o[a] # o[b]}

\* the bodies GET /projects/:id/pipelines/:pipeline/jobs may return for
\* pipeline p: the jobs it has, in some order
JobListings(p) ==
    {[k \in DOMAIN o |-> JobOf(p, o[k])] :
        o \in Orderings({s \in JobSlots : p.jobs[s] # Absent})}

\* the pipelines of project pr with id pid (none when the platform knows none)
FindPipeline(pr, pid) ==
    {n \in DOMAIN pipelines : pipelines[n].id = pid /\ pipelines[n].project = pr}

\* the (pipeline, slot) of job jid in project pr
FindJob(pr, jid) ==
    {<<n, s>> \in (DOMAIN pipelines) \X JobSlots :
        pipelines[n].project = pr /\ JobIdOf(pipelines[n].id, s) = jid}

\* the id of the pipeline job jid of project pr belongs to, 0 when there is none
PipelineOfJob(pr, jid) ==
    IF FindJob(pr, jid) = {} THEN 0
    ELSE pipelines[(CHOOSE j \in FindJob(pr, jid) : TRUE)[1]].id

\* The platform moves a job forward on its own: it materializes as created or
\* manual, a created job becomes manual when its stage is reached, a manual
\* job becomes pending when somebody plays it.
Rank(st) == CASE st = Absent -> 0 [] st = "created" -> 1 [] st = "manual" -> 2
              [] st = "pending" -> 3

\* the number of status changes that take a job from status a to status b
MoveCost(a, b) ==
    IF a = b THEN 0
    ELSE IF b = "pending" /\ a # "manual" THEN 2
    ELSE 1

RECURSIVE TableCost(_, _, _)
\* the number of status changes that take job table t0 to t1, slots 1..n
TableCost(t0, t1, n) ==
    IF n = 0 THEN 0 ELSE MoveCost(t0[n], t1[n]) + TableCost(t0, t1, n - 1)

\* the job tables the platform may have reached from t0 with at most k changes
Evolutions(t0, k) ==
    {t1 \in [JobSlots -> {Absent, "created", "manual", "pending"}] :
        /\ \A s \in JobSlots : Rank(t0[s]) <= Rank(t1[s])
        /\ TableCost(t0, t1, MaxJobs) <= k}

\* the ids of the jobs of a response whose status is manual, in its order
ManualIds(jobs) ==
    LET m == SelectSeq(jobs, LAMBDA j : j.status = "manual") IN
    [k \in DOMAIN m |-> m[k].id]

-----------------------------------------------------------------------------
(* Events                                                                  *)

\* An event: what was done (op), by which triggerPipeline call (tgt), its
\* arguments (project, pipeline, job) and its outcome (res).  For a poll,
\* total is the number of jobs in the response and manual the ids of those
\* whose status is manual, in the order of the response.
Ev(op, tgt, project, pipeline, job, res, total, manual) ==
    [op |-> op, tgt |-> tgt, project |-> project, pipeline |-> pipeline,
     job |-> job, res |-> res, total |-> total, manual |-> manual]

Delay(tgt, which) == Ev("delay", tgt, 0, 0, 0, which, 0, <<>>)
Console(tgt, line) == Ev("console", tgt, 0, 0, 0, line, 0, <<>>)

Ok == "ok"

-----------------------------------------------------------------------------
(* Initial state: the process has started, nothing has run                 *)

Init ==
    /\ env \in [host : HostValues, token : TokenValues, auto : AutoRunValues,
                vars : {ExampleVars}]
    /\ options \in [project : CommandLines,
                    branch : {NoOption, "develop"}]
    /\ opc = "main"
    /\ selectedProjects = <<>>
    /\ branch = NoOption
    /\ idx = 0
    /\ exitCode = -1
    /\ tpc = [i \in Tasks |-> "idle"]
    /\ pipelineId = [i \in Tasks |-> 0]
    /\ retryCount = [i \in Tasks |-> 0]
    /\ manualJobs = [i \in Tasks |-> <<>>]
    /\ jobIdx = [i \in Tasks |-> 0]
    /\ err = [i \in Tasks |-> NoError]
    /\ pipelines = <<>>
    /\ moves = 0
    /\ events = <<>>

-----------------------------------------------------------------------------
(* Building blocks.  The code between two awaits runs without interruption *)
(* and belongs to the step that resumes the first await.                   *)

Running == opc # "exited"

\* process.exit(code), or the process ending after main returned
Exit(code) ==
    /\ opc' = "exited"
    /\ exitCode' = code

Goto(i, where) == tpc' = [tpc EXCEPT ![i] = where]

\* triggerPipeline call i has settled
Settled(i) == tpc[i] \in {"returned", "rejected"}

\* (a variant: any value of AUTO_RUN_MANUAL_JOBS enables the cascade)
AutoRunAnyValue == env.auto # NoOption

\* config.autoRunManualJobs
AutoRunManualJobs == env.auto = "true"

\* where triggerPipeline goes once the pipeline is created
AfterCreate == IF AutoRunManualJobs THEN "initialWait" ELSE "returned"

\* for (const project of selectedProjects) over sel, k iterations done: the
\* next triggerPipeline call runs up to its first await, or the loop ends,
\* the success line is printed and the process ends
LoopFrom(sel, k) ==
    IF k < Len(sel)
    THEN /\ idx' = k + 1
         /\ Goto(k + 1, "createPipeline")
         /\ opc' = "await"
         /\ UNCHANGED <<exitCode, events>>
    ELSE /\ idx' = k
         /\ events' = Append(events, Console(0, "All pipelines triggered successfully!"))
         /\ Exit(0)
         /\ UNCHANGED tpc

-----------------------------------------------------------------------------
(* main, runWithOptions, interactiveFlow                                   *)

\* !process.env[envVar] is false: the variable is set and not empty
Truthy(v) == v # NoOption /\ v # ""

\* (a variant: only the presence of the variables is checked)
ConfigValidWhenDefined == env.host # NoOption /\ env.token # NoOption

\* the constructor's check of the required environment variables
ConfigValid == Truthy(env.host) /\ Truthy(env.token)

\* main: parseOptions, new GitLabPipelineTrigger(), runWithOptions up to its
\* await of loadProjects
Main ==
    /\ opc = "main"
    /\ IF ConfigValid
       THEN opc' = "runWithOptions" /\ exitCode' = exitCode
       ELSE Exit(1)
    /\ UNCHANGED <<selectedProjects, branch, idx, taskVars, inputVars, platformVars, events>>

RECURSIVE Split(_, _)
\* s.split(sep)
Split(s, sep) ==
    IF \A k \in DOMAIN s : s[k] # sep THEN <<s>>
    ELSE LET k == CHOOSE x \in DOMAIN s : s[x] = sep /\ \A y \in 1..(x - 1) : s[y] # sep IN
         <<SubSeq(s, 1, k - 1)>> \o Split(SubSeq(s, k + 1, Len(s)), sep)

RECURSIVE TrimStart(_)
TrimStart(s) == IF s # <<>> /\ s[1] = " " THEN TrimStart(Tail(s)) ELSE s

RECURSIVE TrimEnd(_)
TrimEnd(s) == IF s # <<>> /\ s[Len(s)] = " " THEN TrimEnd(SubSeq(s, 1, Len(s) - 1)) ELSE s

\* name.trim()
Trim(s) == TrimEnd(TrimStart(s))

\* options.project.split(',').map(name => name.trim())
ProjectNamesOf(s) == [k \in DOMAIN Split(s, ",") |-> Trim(Split(s, ",")[k])]

RECURSIVE FilterInNamesOrder(_)
\* (a variant: the projects are looked up name by name, in the order of -p)
FilterInNamesOrder(names) ==
    IF names = <<>> THEN <<>>
    ELSE SelectSeq(AllProjects, LAMBDA p : <<p.name>> = names[1])
            \o FilterInNamesOrder(Tail(names))

\* allProjects.filter(p => projectNames.includes(p.name))
FilterByName(names) ==
    SelectSeq(AllProjects, LAMBDA p : <<p.name>> \in Range(names))

\* the value of options.project when it is defined
ProjectOption == CHOOSE s \in options.project : TRUE

\* if (options.project): the -p argument is present and not empty
OptionProjectGiven == options.project # {} /\ ProjectOption # <<>>

\* (a variant: the -b argument is not used)
BranchAlwaysMain == "main"

\* options.branch || 'main'
BranchOrMain == IF Truthy(options.branch) THEN options.branch ELSE "main"

\* runWithOptions after loadProjects: the -p branch with its loop, or
\* interactiveFlow up to its await of loadProjects
RunWithOptions ==
    /\ opc = "runWithOptions"
    /\ \E loaded \in BOOLEAN :
         IF ~loaded
         THEN /\ Exit(1)
              /\ UNCHANGED <<selectedProjects, branch, idx, tpc, events>>
         ELSE IF OptionProjectGiven
         THEN LET sel == FilterByName(ProjectNamesOf(ProjectOption)) IN
              IF Len(sel) = 0
              THEN /\ Exit(1)
                   /\ UNCHANGED <<selectedProjects, branch, idx, tpc, events>>
              ELSE /\ selectedProjects' = sel
                   /\ branch' = BranchOrMain
                   /\ LoopFrom(sel, 0)
         ELSE /\ opc' = "interactiveFlow"
              /\ UNCHANGED <<selectedProjects, branch, idx, tpc, exitCode, events>>
    /\ UNCHANGED <<pipelineId, retryCount, manualJobs, jobIdx, err, inputVars, platformVars>>

\* interactiveFlow after loadProjects: on to the project prompt
InteractiveFlow ==
    /\ opc = "interactiveFlow"
    /\ \E loaded \in BOOLEAN :
         IF loaded THEN opc' = "selectProjects" /\ exitCode' = exitCode ELSE Exit(1)
    /\ UNCHANGED <<selectedProjects, branch, idx, taskVars, inputVars, platformVars, events>>

\* selectProjects answered or cancelled; on to the branch prompt
SelectProjects ==
    /\ opc = "selectProjects"
    /\ \/ Exit(0) /\ UNCHANGED selectedProjects
       \/ \E ids \in SUBSET {AllProjects[i].id : i \in DOMAIN AllProjects} :
            LET sel == SelectSeq(AllProjects, LAMBDA p : p.id \in ids) IN
            /\ selectedProjects' = sel
            /\ IF Len(sel) = 0
               THEN Exit(0)
               ELSE opc' = "selectBranch" /\ exitCode' = exitCode
    /\ UNCHANGED <<branch, idx, taskVars, inputVars, platformVars, events>>

\* selectBranch answered (trimmed, not empty) or cancelled; then the loop
SelectBranch ==
    /\ opc = "selectBranch"
    /\ \/ /\ Exit(0)
          /\ UNCHANGED <<branch, idx, tpc, events>>
       \/ \E b \in Branches :
            /\ branch' = b
            /\ LoopFrom(selectedProjects, 0)
    /\ UNCHANGED <<selectedProjects, pipelineId, retryCount, manualJobs, jobIdx, err,
                   inputVars, platformVars>>

\* (a variant: the call is started and not awaited)
AwaitedNever(i) == TRUE

\* await this.triggerPipeline(project, branch): the loop resumes when the
\* call has settled
Awaited(i) == Settled(i)

\* (a variant: the loop catches the rejection and goes on)
LoopThrowsNever(i) == FALSE

\* the awaited call rejected: with no try/catch inside the for loop, the
\* await throws out of the loop
LoopThrows(i) == tpc[i] = "rejected"

\* (a variant: the catch logs the failure and the process ends normally)
AwaitExitsNormally ==
    /\ opc = "await"
    /\ Awaited(idx)
    /\ IF LoopThrows(idx)
       THEN Exit(0) /\ UNCHANGED <<idx, tpc, events>>
       ELSE LoopFrom(selectedProjects, idx)
    /\ UNCHANGED <<selectedProjects, branch, pipelineId, retryCount, manualJobs, jobIdx,
                   err, inputVars, platformVars>>

\* The loop resumes.  A rejection is not caught in the loop: it ends the
\* process with code 1 (main's catch in command-line mode, interactiveFlow's
\* catch otherwise).
Await ==
    /\ opc = "await"
    /\ Awaited(idx)
    /\ IF LoopThrows(idx)
       THEN Exit(1) /\ UNCHANGED <<idx, tpc, events>>
       ELSE LoopFrom(selectedProjects, idx)
    /\ UNCHANGED <<selectedProjects, branch, pipelineId, retryCount, manualJobs, jobIdx,
                   err, inputVars, platformVars>>

-----------------------------------------------------------------------------
(* triggerPipeline, runAllManualJobs, getPipelineJobs, runManualJob        *)

maxRetries == 3

\* the catch blocks: each logs and rethrows the error it caught
CatchGetPipelineJobs(e) == e
CatchRunManualJob(e) == e
CatchRunAllManualJobs(e) == e
\* (a variant: the catch throws a new, generic error)
CatchTriggerPipelineWraps(e) == "Error"

CatchTriggerPipeline(e) == e

\* triggerPipeline call i rejects with e
Reject(i, e) ==
    /\ err' = [err EXCEPT ![i] = e]
    /\ Goto(i, "rejected")

\* (a variant: the filter reads the manual field)
IsManualField(job) == job.manual

\* jobs.filter(job => job.status === 'manual')
IsManual(job) == job.status = "manual"

\* (a variant: every job of the response is taken, whatever its status)
FilterManualAll(jobs) == jobs

FilterManual(jobs) == SelectSeq(jobs, IsManual)

\* (a variant: one attempt too many)
LoopConditionOffByOne(mj, rc) == Len(mj) = 0 /\ rc <= maxRetries

\* while (manualJobs.length === 0 && retryCount < maxRetries)
LoopCondition(mj, rc) == Len(mj) = 0 /\ rc < maxRetries

\* if (manualJobs.length > 0) break
BreakCondition(mj) == Len(mj) > 0

\* (a variant: finding nothing within the budget is an error)
AfterLoopThrows(i, mj, evs) ==
    IF Len(mj) = 0
    THEN /\ events' = Append(evs, Console(i, "No manual jobs found"))
         /\ Goto(i, "rejected")
         /\ UNCHANGED jobIdx
    ELSE /\ events' = Append(evs, Console(i, "Found manual jobs"))
         /\ jobIdx' = [jobIdx EXCEPT ![i] = 1]
         /\ Goto(i, "runManualJob")

\* The code after the while loop, with manualJobs = mj and the events evs:
\* nothing found and the cascade returns, or the for-of loop starts its
\* first play.
AfterLoop(i, mj, evs) ==
    IF Len(mj) = 0
    THEN /\ events' = Append(evs, Console(i, "No manual jobs found"))
         /\ Goto(i, "returned")
         /\ UNCHANGED jobIdx
    ELSE /\ events' = Append(evs, Console(i, "Found manual jobs"))
         /\ jobIdx' = [jobIdx EXCEPT ![i] = 1]
         /\ Goto(i, "runManualJob")

\* (a variant: the retries follow one another with no wait)
WhileLoopNoWait(i, mj, rc, evs) ==
    IF LoopCondition(mj, rc)
    THEN /\ retryCount' = [retryCount EXCEPT ![i] = rc + 1]
         /\ Goto(i, "getPipelineJobs")
         /\ events' = evs
         /\ UNCHANGED jobIdx
    ELSE /\ retryCount' = [retryCount EXCEPT ![i] = rc]
         /\ AfterLoop(i, mj, evs)

\* (a variant: the attempts are not counted)
WhileLoopNoCount(i, mj, rc, evs) ==
    IF LoopCondition(mj, rc)
    THEN /\ retryCount' = [retryCount EXCEPT ![i] = rc]
         /\ Goto(i, IF rc + 1 > 1 THEN "retryWait" ELSE "getPipelineJobs")
         /\ events' = evs
         /\ UNCHANGED jobIdx
    ELSE /\ retryCount' = [retryCount EXCEPT ![i] = rc]
         /\ AfterLoop(i, mj, evs)

\* The while loop's test with manualJobs = mj and retryCount = rc: one more
\* attempt (after a wait, from the second attempt on), or the code after it.
WhileLoop(i, mj, rc, evs) ==
    IF LoopCondition(mj, rc)
    THEN /\ retryCount' = [retryCount EXCEPT ![i] = rc + 1]
         /\ Goto(i, IF rc + 1 > 1 THEN "retryWait" ELSE "getPipelineJobs")
         /\ events' = evs
         /\ UNCHANGED jobIdx
    ELSE /\ retryCount' = [retryCount EXCEPT ![i] = rc]
         /\ AfterLoop(i, mj, evs)

\* (a variant: the post is tried again)
CreateFailedRetries(i, e, evs) ==
    /\ events' = evs
    /\ UNCHANGED <<tpc, err>>

\* The post of triggerPipeline failed with e: its catch logs and rethrows,
\* the call rejects.  There is no retry.
CreateFailed(i, e, evs) ==
    /\ events' = evs
    /\ Reject(i, CatchTriggerPipeline(e))

\* (a variant: a failed poll counts as an empty one and the loop goes on)
ListFailedRetries(i, e, evs) ==
    /\ WhileLoop(i, <<>>, retryCount[i], evs)
    /\ UNCHANGED err

\* getPipelineJobs failed with e: the error leaves the while loop through the
\* catch blocks of getPipelineJobs, runAllManualJobs and triggerPipeline
ListFailed(i, e, evs) ==
    /\ events' = evs
    /\ Reject(i, CatchTriggerPipeline(CatchRunAllManualJobs(CatchGetPipelineJobs(e))))
    /\ UNCHANGED <<retryCount, jobIdx>>

\* (a variant: the failure is logged and the for-of loop goes on)
PlayFailedContinues(i, e, evs) ==
    /\ events' = evs
    /\ Goto(i, "paceWait")
    /\ UNCHANGED err

\* runManualJob failed with e: the error leaves the for-of loop through the
\* catch blocks of runManualJob, runAllManualJobs and triggerPipeline
PlayFailed(i, e, evs) ==
    /\ events' = evs
    /\ Reject(i, CatchTriggerPipeline(CatchRunAllManualJobs(CatchRunManualJob(e))))

\* key.startsWith(p)
StartsWith(s, p) == Len(s) >= Len(p) /\ SubSeq(s, 1, Len(p)) = p

\* the positions of s at which p occurs
Occurrences(s, p) ==
    {k \in 1..(Len(s) - Len(p) + 1) : SubSeq(s, k, k + Len(p) - 1) = p}

RECURSIVE ReplaceEvery(_, _, _)
\* (a variant: every occurrence is replaced)
ReplaceEvery(s, p, r) ==
    IF Occurrences(s, p) = {} THEN s
    ELSE LET k == CHOOSE x \in Occurrences(s, p) : \A y \in Occurrences(s, p) : x <= y IN
         SubSeq(s, 1, k - 1) \o r \o ReplaceEvery(SubSeq(s, k + Len(p), Len(s)), p, r)

\* key.replace(p, r) with a string pattern: the first occurrence is replaced
Replace(s, p, r) ==
    IF Occurrences(s, p) = {} THEN s
    ELSE LET k == CHOOSE x \in Occurrences(s, p) : \A y \in Occurrences(s, p) : x <= y IN
         SubSeq(s, 1, k - 1) \o r \o SubSeq(s, k + Len(p), Len(s))

\* getPipelineVariables over the entries e of process.env
getPipelineVariables(e) ==
    LET kept == SelectSeq(e, LAMBDA en : StartsWith(en.key, Prefix) /\ en.value # NoOption) IN
    [k \in DOMAIN kept |-> [key |-> Replace(kept[k].key, Prefix, <<>>),
                             value |-> kept[k].value]]

\* variables.length > 0 ? variables : undefined, the field of the request
\* body: the set holding the list, empty when the field is undefined
RequestVariables(v) == IF Len(v) > 0 THEN {v} ELSE {}

\* await this.client.post(`/projects/${project.id}/pipeline`, requestBody)
CreatePipeline(i) ==
    /\ Running /\ tpc[i] = "createPipeline"
    /\ LET project == selectedProjects[i] IN
       \/ LET pid == PipelineIdOf(Len(pipelines) + 1) IN
          /\ pipelines' = Append(pipelines,
                [id |-> pid, project |-> project.id, ref |-> branch,
                 variables |-> RequestVariables(getPipelineVariables(env.vars)),
                 jobs |-> NoJobs])
          /\ events' = Append(events,
                Ev("createPipeline", i, project.id, pid, 0, Ok, 0, <<>>))
          /\ pipelineId' = [pipelineId EXCEPT ![i] = pid]
          /\ Goto(i, AfterCreate)
          /\ UNCHANGED err
       \/ \E e \in CreateErrors :
          /\ CreateFailed(i, e, Append(events,
                Ev("createPipeline", i, project.id, 0, 0, e, 0, <<>>)))
          /\ UNCHANGED <<pipelines, pipelineId>>
    /\ UNCHANGED <<retryCount, manualJobs, jobIdx, orchVars, inputVars, moves>>

\* runAllManualJobs: the initial wait is over; manualJobs = [], retryCount = 0
\* and the while loop is entered
InitialWait(i) ==
    /\ Running /\ tpc[i] = "initialWait"
    /\ manualJobs' = [manualJobs EXCEPT ![i] = <<>>]
    /\ WhileLoop(i, <<>>, 0, Append(events, Delay(i, "initial")))
    /\ UNCHANGED <<pipelineId, err, orchVars, inputVars, platformVars>>

\* the wait before a retry is over
RetryWait(i) ==
    /\ Running /\ tpc[i] = "retryWait"
    /\ events' = Append(events, Delay(i, "retry"))
    /\ Goto(i, "getPipelineJobs")
    /\ UNCHANGED <<pipelineId, retryCount, manualJobs, jobIdx, err, orchVars,
                   inputVars, platformVars>>

\* (a variant: the id of the first pipeline of the run is kept)
PolledPipelineFirst(i) == pipelineId[1]

\* the pipeline id runAllManualJobs polls for
PolledPipeline(i) == pipelineId[i]

\* const jobs = await this.getPipelineJobs(projectId, pipelineId): the
\* response, the filter, the break or the next round of the loop.  The
\* platform answers from the job table it has reached by then.
GetPipelineJobs(i) ==
    /\ Running /\ tpc[i] = "getPipelineJobs"
    /\ LET pr == selectedProjects[i].id
           pid == PolledPipeline(i)
           found == FindPipeline(pr, pid) IN
       \/ \E n \in found : \E t \in Evolutions(pipelines[n].jobs, MaxMoves - moves) :
          LET p == [pipelines[n] EXCEPT !.jobs = t] IN
          \E jobs \in JobListings(p) :
          LET mj == FilterManual(jobs)
              evs == Append(events, Ev("listJobs", i, pr, pid, 0, Ok, Len(jobs), ManualIds(jobs))) IN
          /\ pipelines' = [pipelines EXCEPT ![n] = p]
          /\ moves' = moves + TableCost(pipelines[n].jobs, t, MaxJobs)
          /\ manualJobs' = [manualJobs EXCEPT ![i] = mj]
          /\ IF BreakCondition(mj)
             THEN AfterLoop(i, mj, evs) /\ UNCHANGED retryCount
             ELSE WhileLoop(i, mj, retryCount[i], evs)
          /\ UNCHANGED err
       \/ \E e \in (IF found = {} THEN {"NotFoundError"} ELSE ListErrors) :
          /\ ListFailed(i, e, Append(events, Ev("listJobs", i, pr, pid, 0, e, 0, <<>>)))
          /\ UNCHANGED <<manualJobs, platformVars>>
    /\ UNCHANGED <<pipelineId, orchVars, inputVars>>

\* the job the for-of loop of call i is at
CurrentJob(i) == manualJobs[i][jobIdx[i]]

\* (a variant: the status is read again and a job that is no longer manual
\* is passed over without a request)
RunManualJobRechecks(i) ==
    /\ Running /\ tpc[i] = "runManualJob"
    /\ LET pr == selectedProjects[i].id
           jid == CurrentJob(i).id
           found == FindJob(pr, jid) IN
       \/ \E j \in found : \E t \in Evolutions(pipelines[j[1]].jobs, MaxMoves - moves) :
          /\ moves' = moves + TableCost(pipelines[j[1]].jobs, t, MaxJobs)
          /\ IF t[j[2]] = "manual"
             THEN /\ pipelines' = [pipelines EXCEPT ![j[1]].jobs = [t EXCEPT ![j[2]] = "pending"]]
                  /\ events' = Append(events,
                        Ev("playJob", i, pr, pipelines[j[1]].id, jid, Ok, 0, <<>>))
             ELSE /\ pipelines' = [pipelines EXCEPT ![j[1]].jobs = t]
                  /\ events' = events
          /\ Goto(i, "paceWait")
          /\ UNCHANGED err
       \/ \E e \in (IF found = {} THEN {"NotFoundError"} ELSE PlayErrors) :
          /\ PlayFailed(i, e, Append(events,
                Ev("playJob", i, pr, PipelineOfJob(pr, jid), jid, e, 0, <<>>)))
          /\ UNCHANGED platformVars
    /\ UNCHANGED <<pipelineId, retryCount, manualJobs, jobIdx, orchVars, inputVars>>

\* await this.runManualJob(projectId, job.id): POST .../jobs/:id/play.  The
\* platform starts a job only from the manual status, which the job may have
\* left since the poll.
RunManualJob(i) ==
    /\ Running /\ tpc[i] = "runManualJob"
    /\ LET pr == selectedProjects[i].id
           jid == CurrentJob(i).id
           found == FindJob(pr, jid) IN
       \/ \E j \in found : \E t \in Evolutions(pipelines[j[1]].jobs, MaxMoves - moves) :
          /\ moves' = moves + TableCost(pipelines[j[1]].jobs, t, MaxJobs)
          /\ IF t[j[2]] = "manual"
             THEN /\ pipelines' = [pipelines EXCEPT ![j[1]].jobs = [t EXCEPT ![j[2]] = "pending"]]
                  /\ events' = Append(events,
                        Ev("playJob", i, pr, pipelines[j[1]].id, jid, Ok, 0, <<>>))
                  /\ Goto(i, "paceWait")
                  /\ UNCHANGED err
             ELSE /\ pipelines' = [pipelines EXCEPT ![j[1]].jobs = t]
                  /\ PlayFailed(i, "ValidationError", Append(events,
                        Ev("playJob", i, pr, pipelines[j[1]].id, jid, "ValidationError", 0, <<>>)))
       \/ \E e \in (IF found = {} THEN {"NotFoundError"} ELSE PlayErrors) :
          /\ PlayFailed(i, e, Append(events,
                Ev("playJob", i, pr, PipelineOfJob(pr, jid), jid, e, 0, <<>>)))
          /\ UNCHANGED platformVars
    /\ UNCHANGED <<pipelineId, retryCount, manualJobs, jobIdx, orchVars, inputVars>>

\* (a variant: the last job is left out)
HasNextJobSkipsLast(mj, k) == k + 1 < Len(mj)

\* for (const job of manualJobs): there is a job after position k
HasNextJob(mj, k) == k < Len(mj)

\* (a variant: the plays follow one another with no wait)
PaceWaitNoDelay(i) ==
    /\ Running /\ tpc[i] = "paceWait"
    /\ IF HasNextJob(manualJobs[i], jobIdx[i])
       THEN /\ events' = events
            /\ jobIdx' = [jobIdx EXCEPT ![i] = @ + 1]
            /\ Goto(i, "runManualJob")
       ELSE /\ events' = Append(events, Console(i, "All manual jobs have been triggered"))
            /\ Goto(i, "returned")
            /\ UNCHANGED jobIdx
    /\ UNCHANGED <<pipelineId, retryCount, manualJobs, err, orchVars, inputVars,
                   platformVars>>

\* the pacing wait after a play is over: the next job, or the cascade is done
PaceWait(i) ==
    /\ Running /\ tpc[i] = "paceWait"
    /\ IF HasNextJob(manualJobs[i], jobIdx[i])
       THEN /\ events' = Append(events, Delay(i, "pace"))
            /\ jobIdx' = [jobIdx EXCEPT ![i] = @ + 1]
            /\ Goto(i, "runManualJob")
       ELSE /\ events' = events \o <<Delay(i, "pace"),
                                     Console(i, "All manual jobs have been triggered")>>
            /\ Goto(i, "returned")
            /\ UNCHANGED jobIdx
    /\ UNCHANGED <<pipelineId, retryCount, manualJobs, err, orchVars, inputVars,
                   platformVars>>

-----------------------------------------------------------------------------

TaskStep(i) ==
    \/ CreatePipeline(i)
    \/ InitialWait(i)
    \/ RetryWait(i)
    \/ GetPipelineJobs(i)
    \/ RunManualJob(i)
    \/ PaceWait(i)

Next ==
    \/ Main
    \/ RunWithOptions
    \/ InteractiveFlow
    \/ SelectProjects
    \/ SelectBranch
    \/ Await
    \/ \E i \in Tasks : TaskStep(i)

Spec == Init /\ [][Next]_vars

\* Every request is answered and every timer fires: a triggerPipeline call
\* that is waiting for one goes on, and the loop that awaits a settled call
\* resumes.
Fairness ==
    /\ \A i \in Tasks : WF_vars(TaskStep(i))
    /\ WF_vars(Await)

SpecFair == Spec /\ Fairness

\* One command-line run for one project with the cascade off, over the
\* environments of EnvMaps: main, runWithOptions and the one triggerPipeline
\* call, whose request carries what getPipelineVariables returns.
InitVariables ==
    /\ env \in [host : {"https://gitlab.example.com"}, token : {"glpat-token"},
                auto : {NoOption}, vars : EnvMaps]
    /\ options = [project |-> {<<ProjectNames[1]>>}, branch |-> NoOption]
    /\ opc = "main"
    /\ selectedProjects = <<>>
    /\ branch = NoOption
    /\ idx = 0
    /\ exitCode = -1
    /\ tpc = [i \in Tasks |-> "idle"]
    /\ pipelineId = [i \in Tasks |-> 0]
    /\ retryCount = [i \in Tasks |-> 0]
    /\ manualJobs = [i \in Tasks |-> <<>>]
    /\ jobIdx = [i \in Tasks |-> 0]
    /\ err = [i \in Tasks |-> NoError]
    /\ pipelines = <<>>
    /\ moves = 0
    /\ events = <<>>

NextVariables ==
    \/ Main
    \/ RunWithOptions
    \/ Await
    \/ CreatePipeline(1)

SpecVariables == InitVariables /\ [][NextVariables]_vars

\* The runs with the cascade off, over the strings -p and -b may be given:
\* main, the selection of the projects and of the branch, and the
\* triggerPipeline calls.
InitOptions ==
    /\ env = [host |-> "https://gitlab.example.com", token |-> "glpat-token",
              auto |-> NoOption, vars |-> ExampleVars]
    /\ options \in [project : {{}} \cup {{s} : s \in OptionStrings},
                    branch : {NoOption, "", "develop"}]
    /\ opc = "main"
    /\ selectedProjects = <<>>
    /\ branch = NoOption
    /\ idx = 0
    /\ exitCode = -1
    /\ tpc = [i \in Tasks |-> "idle"]
    /\ pipelineId = [i \in Tasks |-> 0]
    /\ retryCount = [i \in Tasks |-> 0]
    /\ manualJobs = [i \in Tasks |-> <<>>]
    /\ jobIdx = [i \in Tasks |-> 0]
    /\ err = [i \in Tasks |-> NoError]
    /\ pipelines = <<>>
    /\ moves = 0
    /\ events = <<>>

NextOptions ==
    \/ Main
    \/ RunWithOptions
    \/ InteractiveFlow
    \/ SelectProjects
    \/ SelectBranch
    \/ Await
    \/ \E i \in Tasks : CreatePipeline(i)

SpecOptions == InitOptions /\ [][NextOptions]_vars

-----------------------------------------------------------------------------
(* What a run did, read off the events                                     *)

\* the API calls of the run, in the order they were made
AllCalls == SelectSeq(events, LAMBDA e : e.op \in ApiOps)

\* the createPipeline calls of the run
Creates == SelectSeq(events, LAMBDA e : e.op = "createPipeline")

CreatesOf(i) == SelectSeq(events, LAMBDA e : e.tgt = i /\ e.op = "createPipeline")

\* the listJobs calls of the cascade of call i
Polls(i) == SelectSeq(events, LAMBDA e : e.tgt = i /\ e.op = "listJobs")

\* the playJob calls of the cascade of call i
Plays(i) == SelectSeq(events, LAMBDA e : e.tgt = i /\ e.op = "playJob")

EventsOf(i) == SelectSeq(events, LAMBDA e : e.tgt = i)

Last(q) == q[Len(q)]

AllOk(q) == \A k \in DOMAIN q : q[k].res = Ok

\* every poll of q succeeded and held no job of status manual
AllEmpty(q) == \A k \in DOMAIN q : q[k].res = Ok /\ q[k].manual = <<>>

\* call i is running: started and not settled
Busy(i) == tpc[i] # "idle" /\ ~Settled(i)

Interactive == ~OptionProjectGiven

-----------------------------------------------------------------------------
(* Claims                                                                  *)

\* C1: with AUTO_RUN_MANUAL_JOBS other than 'true', every API call of the run
\* is a createPipeline call, the k-th of them is for the k-th target, and a
\* run whose loop ended with no createPipeline failure made exactly one call
\* per target.
C1_CascadeDisabledOnlyCreates ==
    env.auto # "true" =>
        /\ \A k \in DOMAIN AllCalls : AllCalls[k].op = "createPipeline"
        /\ Len(Creates) <= Len(selectedProjects)
        /\ \A k \in DOMAIN Creates :
              /\ Creates[k].tgt = k
              /\ Creates[k].project = selectedProjects[k].id
        /\ (opc = "exited" /\ idx > 0 /\ AllOk(Creates))
              => Len(Creates) = Len(selectedProjects)

C1_Witness ==
    /\ env.auto = "TRUE"
    /\ opc = "exited"
    /\ Len(selectedProjects) > 1
    /\ Len(Creates) = Len(selectedProjects)
    /\ AllOk(Creates)

\* C2: while every poll of a cascade has succeeded without a job of status
\* manual, the cascade plays nothing and polls at most maxRetries times; it is
\* still polling only below maxRetries polls, and with maxRetries polls it
\* has returned, its last event being the "No manual jobs found" line.
C2_EmptyPollsExhaustBudget ==
    \A i \in Tasks :
        AllEmpty(Polls(i)) =>
            /\ Plays(i) = <<>>
            /\ Len(Polls(i)) <= maxRetries
            /\ tpc[i] \in {"retryWait", "getPipelineJobs"} => Len(Polls(i)) < maxRetries
            /\ Len(Polls(i)) = maxRetries =>
                  /\ tpc[i] = "returned"
                  /\ Last(EventsOf(i)) = Console(i, "No manual jobs found")
            /\ (tpc[i] = "returned" /\ env.auto = "true") => Len(Polls(i)) = maxRetries

C2_Witness ==
    \E i \in Tasks :
        /\ tpc[i] = "returned"
        /\ Len(Polls(i)) = 3
        /\ AllEmpty(Polls(i))
        /\ Polls(i)[1].total = 0
        /\ Polls(i)[3].total > 0
        /\ Plays(i) = <<>>

\* C3: a poll whose response holds manual jobs is the last poll of its cascade
\* (so poll k being the first such poll, there are exactly k polls, k at most
\* maxRetries); every poll of the cascade precedes every play; the plays are,
\* in order, the manual jobs of that poll, each at most once; and when the
\* cascade has returned with no play failed, every one of them was played.
C3_FirstManualPollIsPlayed ==
    \A i \in Tasks :
        /\ Len(Polls(i)) <= maxRetries
        /\ \A a, b \in DOMAIN events :
              (events[a].tgt = i /\ events[a].op = "playJob"
                 /\ events[b].tgt = i /\ events[b].op = "listJobs") => b < a
        /\ \A k \in DOMAIN Polls(i) :
              Polls(i)[k].manual # <<>> =>
                  /\ k = Len(Polls(i))
                  /\ Len(Plays(i)) <= Len(Polls(i)[k].manual)
                  /\ \A j \in DOMAIN Plays(i) : Plays(i)[j].job = Polls(i)[k].manual[j]
                  /\ (tpc[i] = "returned" /\ AllOk(Plays(i)))
                        => Len(Plays(i)) = Len(Polls(i)[k].manual)

C3_Witness ==
    \E i \in Tasks :
        /\ tpc[i] = "returned"
        /\ Len(Polls(i)) = 1
        /\ Len(Polls(i)[1].manual) = 2
        /\ Len(Plays(i)) = 2
        /\ AllOk(Plays(i))
        /\ Plays(i)[1].job > Plays(i)[2].job

\* C4: when the createPipeline call of a target failed, that target has no
\* listJobs and no playJob call, and its triggerPipeline call has rejected
\* with the very error createPipeline gave.
C4_CreateFailureSkipsCascade ==
    \A i \in Tasks :
        \A k \in DOMAIN CreatesOf(i) :
            CreatesOf(i)[k].res # Ok =>
                /\ Polls(i) = <<>>
                /\ Plays(i) = <<>>
                /\ tpc[i] = "rejected"
                /\ err[i] = CreatesOf(i)[k].res

C4_Witness ==
    \E i \in Tasks :
        /\ env.auto = "true"
        /\ CreatesOf(i) # <<>>
        /\ Last(CreatesOf(i)).res = "AuthError"
        /\ err[i] = "AuthError"
        /\ opc = "exited"

\* C5: after a failed API call of target i no API call is made for a later
\* target, whichever flow runs the loop.
C5_FailureAbortsRemainingTargets ==
    \A a, b \in DOMAIN AllCalls :
        (a < b /\ AllCalls[a].res # Ok) => AllCalls[b].tgt <= AllCalls[a].tgt

C5_Witness ==
    /\ Interactive
    /\ opc = "exited"
    /\ Len(selectedProjects) > 1
    /\ Plays(1) # <<>>
    /\ Last(Plays(1)).res # Ok
    /\ Last(AllCalls).tgt = 1

\* C6: when a play of a cascade failed, it is the last play of that cascade;
\* it was for the j-th manual job of the discovering poll, the plays before
\* it succeeded and were for the jobs 1..j-1 in order, and the
\* triggerPipeline call has rejected with the error playJob gave.
C6_PlayFailureAbortsRemainingPlays ==
    \A i \in Tasks :
        \A j \in DOMAIN Plays(i) :
            Plays(i)[j].res # Ok =>
                /\ j = Len(Plays(i))
                /\ Polls(i) # <<>>
                /\ j <= Len(Last(Polls(i)).manual)
                /\ \A m \in 1..j : Plays(i)[m].job = Last(Polls(i)).manual[m]
                /\ \A m \in 1..(j - 1) : Plays(i)[m].res = Ok
                /\ tpc[i] = "rejected"
                /\ err[i] = Plays(i)[j].res

C6_Witness ==
    \E i \in Tasks :
        /\ opc = "exited"
        /\ Polls(i) # <<>>
        /\ Len(Last(Polls(i)).manual) = 2
        /\ Len(Plays(i)) = 1
        /\ Plays(i)[1].res = "TransientError"
        /\ err[i] = "TransientError"

\* C7: a failed poll is the last API call of its cascade: no poll and no play
\* follows it and the triggerPipeline call has rejected with the error
\* listJobs gave; every poll that was followed by another poll had succeeded
\* with no job of status manual.
C7_ListFailureIsNotRetried ==
    \A i \in Tasks :
        \A k \in DOMAIN Polls(i) :
            /\ Polls(i)[k].res # Ok =>
                  /\ k = Len(Polls(i))
                  /\ Plays(i) = <<>>
                  /\ tpc[i] = "rejected"
                  /\ err[i] = Polls(i)[k].res
            /\ k < Len(Polls(i)) =>
                  /\ Polls(i)[k].res = Ok
                  /\ Polls(i)[k].manual = <<>>

C7_Witness ==
    \E i \in Tasks :
        /\ opc = "exited"
        /\ Len(Polls(i)) = 1
        /\ Polls(i)[1].res = "TransientError"
        /\ retryCount[i] = 1
        /\ err[i] = "TransientError"

\* C8: every play of a cascade is for a job that had the status manual in the
\* response of the cascade's last poll, and no two plays of a cascade are
\* for the same job.
C8_OnlyManualStatusPlayedOnce ==
    \A i \in Tasks :
        /\ Plays(i) # <<>> => Polls(i) # <<>>
        /\ \A j \in DOMAIN Plays(i) : Plays(i)[j].job \in Range(Last(Polls(i)).manual)
        /\ \A j, m \in DOMAIN Plays(i) : j # m => Plays(i)[j].job # Plays(i)[m].job

\* the response held two jobs: the one whose manual field is true was not of
\* status manual and was not played, the other was of status manual and played
C8_Witness ==
    \E i \in Tasks :
        /\ tpc[i] = "returned"
        /\ Polls(i) # <<>>
        /\ Last(Polls(i)).total = 2
        /\ Last(Polls(i)).manual = <<JobIdOf(pipelineId[i], 2)>>
        /\ ManualField(1) /\ ~ManualField(2)
        /\ Len(Plays(i)) = 1
        /\ Plays(i)[1].job = JobIdOf(pipelineId[i], 2)
        /\ Plays(i)[1].res = Ok

\* C9: at most one triggerPipeline call is running at any time, call i + 1 has
\* started only if call i has settled, and in the run's events everything
\* done for a target precedes everything done for the next targets.
C9_TargetsStrictlySequential ==
    /\ \A i, j \in Tasks : (Busy(i) /\ Busy(j)) => i = j
    /\ \A i \in Tasks : (i > 1 /\ tpc[i] # "idle") => Settled(i - 1)
    /\ \A a, b \in DOMAIN AllCalls : a < b => AllCalls[a].tgt <= AllCalls[b].tgt

C9_Witness ==
    /\ env.auto = "true"
    /\ Plays(1) # <<>>
    /\ AllOk(Plays(1))
    /\ tpc[2] = "runManualJob"

\* C10: no target has more than one createPipeline call in a run, and no
\* project is triggered twice.
C10_TriggerNeverRetried ==
    \A a, b \in DOMAIN Creates :
        a # b => /\ Creates[a].tgt # Creates[b].tgt
                 /\ Creates[a].project # Creates[b].project

C10_Witness ==
    /\ opc = "exited"
    /\ Len(Creates) = 2
    /\ Creates[1].res = Ok
    /\ Polls(1) # <<>>
    /\ Creates[2].res = "TransientError"

\* C11: a cascade whose maxRetries polls all succeeded with no job of status
\* manual has returned with no error, its triggerPipeline call has returned
\* for the pipeline it created, and the loop goes on: it does not end the run
\* on that target unless it was the last, and a run that has ended made the
\* createPipeline call of the next target.
C11_ExhaustedBudgetIsNotAnError ==
    \A i \in Tasks :
        (Len(Polls(i)) = maxRetries /\ AllEmpty(Polls(i))) =>
            /\ tpc[i] = "returned"
            /\ err[i] = NoError
            /\ CreatesOf(i) # <<>>
            /\ Last(CreatesOf(i)).res = Ok
            /\ pipelineId[i] = Last(CreatesOf(i)).pipeline
            /\ (opc = "exited" /\ i < Len(selectedProjects)) => CreatesOf(i + 1) # <<>>
            /\ (opc = "exited" /\ i = Len(selectedProjects)) => exitCode = 0

C11_Witness ==
    /\ opc = "exited"
    /\ exitCode = 0
    /\ Len(selectedProjects) = 2
    /\ Len(Polls(1)) = maxRetries
    /\ AllEmpty(Polls(1))
    /\ Last(EventsOf(1)) = Console(1, "No manual jobs found")
    /\ CreatesOf(2) # <<>>
    /\ Last(CreatesOf(2)).res = Ok

\* C12: in the run's events every poll comes right after a wait of its own
\* cascade: the first poll after the initial wait, which comes right after the
\* successful createPipeline call of the target, and the k-th poll, k > 1,
\* after a retry wait, which comes right after poll k - 1, a successful poll
\* with no job of status manual, k - 1 below maxRetries.  retryCount never
\* exceeds maxRetries, and it counts the polls made or about to be made.
C12_DelayPrecedesEveryPoll ==
    /\ \A i \in Tasks :
          /\ retryCount[i] <= maxRetries
          /\ Len(Polls(i)) <= retryCount[i]
          /\ retryCount[i] <= Len(Polls(i)) + 1
    /\ \A b \in DOMAIN events :
          LET e == events[b]
              k == Len(SelectSeq(SubSeq(events, 1, b),
                                 LAMBDA x : x.tgt = e.tgt /\ x.op = "listJobs")) IN
          /\ e.op = "listJobs" =>
                /\ b > 1
                /\ events[b - 1] = Delay(e.tgt, IF k = 1 THEN "initial" ELSE "retry")
          /\ e = Delay(e.tgt, "initial") =>
                /\ b > 1
                /\ events[b - 1].op = "createPipeline"
                /\ events[b - 1].tgt = e.tgt
                /\ events[b - 1].res = Ok
          /\ e = Delay(e.tgt, "retry") =>
                /\ b > 1
                /\ events[b - 1].op = "listJobs"
                /\ events[b - 1].tgt = e.tgt
                /\ events[b - 1].res = Ok
                /\ events[b - 1].manual = <<>>
                /\ k < maxRetries

C12_Witness ==
    \E i \in Tasks :
        /\ Len(Polls(i)) = maxRetries
        /\ Last(Polls(i)).manual # <<>>
        /\ Len(SelectSeq(EventsOf(i), LAMBDA x : x = Delay(i, "retry"))) = 2
        /\ Len(SelectSeq(EventsOf(i), LAMBDA x : x = Delay(i, "initial"))) = 1
        /\ tpc[i] = "returned"

\* C13: in the run's events the first play of a cascade comes right after the
\* cascade found its manual jobs, and every later play comes right after a
\* pacing wait of its own cascade, which comes right after the previous play
\* of that cascade, a successful one.  A pacing wait follows every successful
\* play, the last one too.
C13_PlaysArePaced ==
    \A b \in DOMAIN events :
        LET e == events[b]
            j == Len(SelectSeq(SubSeq(events, 1, b),
                               LAMBDA x : x.tgt = e.tgt /\ x.op = "playJob")) IN
        /\ (e.op = "playJob" /\ j = 1) =>
              /\ b > 1
              /\ events[b - 1] = Console(e.tgt, "Found manual jobs")
        /\ (e.op = "playJob" /\ j > 1) =>
              /\ b > 2
              /\ events[b - 1] = Delay(e.tgt, "pace")
              /\ events[b - 2] = Plays(e.tgt)[j - 1]
        /\ e = Delay(e.tgt, "pace") =>
              /\ b > 1
              /\ events[b - 1].op = "playJob"
              /\ events[b - 1].tgt = e.tgt
              /\ events[b - 1].res = Ok
        /\ e = Console(e.tgt, "All manual jobs have been triggered") =>
              /\ b > 1
              /\ events[b - 1] = Delay(e.tgt, "pace")

C13_Witness ==
    \E i \in Tasks :
        /\ tpc[i] = "returned"
        /\ Len(Plays(i)) = 2
        /\ AllOk(Plays(i))
        /\ Len(SelectSeq(EventsOf(i), LAMBDA x : x = Delay(i, "pace"))) = 2

\* the status job jid of project pr has on the platform
StatusOnPlatform(pr, jid) ==
    LET j == CHOOSE x \in FindJob(pr, jid) : TRUE IN pipelines[j[1]].jobs[j[2]]

\* C14: the for-of loop makes a playJob call for every job of manualJobs it
\* comes to, whatever has become of the job since the poll: at its j-th job,
\* j - 1 calls have been made, and waiting after it, j.  A play the platform
\* refused because the job had left the manual status was for a job that was
\* of status manual in the discovering poll; it is the last play of the
\* cascade, so the jobs discovered after it stay unplayed, and the
\* triggerPipeline call has rejected with the platform's ValidationError.
C14_NoRecheckBeforePlay ==
    \A i \in Tasks :
        /\ tpc[i] = "runManualJob" => Len(Plays(i)) = jobIdx[i] - 1
        /\ tpc[i] = "paceWait" => Len(Plays(i)) = jobIdx[i]
        /\ \A j \in DOMAIN Plays(i) :
              Plays(i)[j].res = "ValidationError" =>
                  /\ Polls(i) # <<>>
                  /\ j <= Len(Last(Polls(i)).manual)
                  /\ Plays(i)[j].job = Last(Polls(i)).manual[j]
                  /\ StatusOnPlatform(Plays(i)[j].project, Plays(i)[j].job) # "manual"
                  /\ j = Len(Plays(i))
                  /\ tpc[i] = "rejected"
                  /\ err[i] = "ValidationError"

\* the first of two discovered jobs left the manual status before its play:
\* the play was refused and the second job is still manual, unplayed
C14_Witness ==
    \E i \in Tasks :
        /\ opc = "exited"
        /\ exitCode = 1
        /\ Polls(i) # <<>>
        /\ Len(Last(Polls(i)).manual) = 2
        /\ Len(Plays(i)) = 1
        /\ Plays(i)[1].res = "ValidationError"
        /\ StatusOnPlatform(selectedProjects[i].id, Last(Polls(i)).manual[2]) = "manual"

\* the cascade of call i ended with its "All manual jobs ... have been
\* triggered" line
Done(i) ==
    /\ tpc[i] = "returned"
    /\ Last(EventsOf(i)) = Console(i, "All manual jobs have been triggered")

\* the ids of the jobs of the pipeline of call i whose status on the platform
\* is manual
ManualOnPlatform(i) ==
    {JobIdOf(pipelines[n].id, s) : <<n, s>> \in
        {x \in (DOMAIN pipelines) \X JobSlots :
            /\ pipelines[x[1]].id = pipelineId[i]
            /\ pipelines[x[1]].jobs[x[2]] = "manual"}}

\* C15 as stated: when a cascade has ended with all its plays made, no job of
\* its pipeline has the status manual, the jobs that became manual after the
\* discovering poll included.
C15_Original ==
    \A i \in Tasks : Done(i) => ManualOnPlatform(i) = {}

\* C15, amended: when a cascade has ended with all its plays made, the jobs
\* that were of status manual in the response of the discovering poll have
\* all been played, in order and successfully, and none of them is still
\* manual; a job of the pipeline that is manual then was not of status manual
\* in that response.
C15_DiscoveredJobsPlayedAtDone ==
    \A i \in Tasks :
        Done(i) =>
            /\ Polls(i) # <<>>
            /\ Last(Polls(i)).manual # <<>>
            /\ Len(Plays(i)) = Len(Last(Polls(i)).manual)
            /\ \A j \in DOMAIN Plays(i) :
                  /\ Plays(i)[j].res = Ok
                  /\ Plays(i)[j].job = Last(Polls(i)).manual[j]
            /\ ManualOnPlatform(i) \cap Range(Last(Polls(i)).manual) = {}

\* the cascade played the one job it discovered and ended, while another job
\* of its pipeline, not manual at the poll, has become manual and stays so
C15_Witness ==
    \E i \in Tasks :
        /\ Done(i)
        /\ Len(Last(Polls(i)).manual) = 1
        /\ Len(Plays(i)) = 1
        /\ ManualOnPlatform(i) # {}
        /\ opc = "exited"
        /\ exitCode = 0

\* C16: in a run where GITLAB_HOST or GITLAB_PRIVATE_TOKEN is not set or is
\* empty, no API call is ever made, no project is selected and no
\* triggerPipeline call is started; once main has run, the process has ended
\* with code 1.
C16_ConfigErrorBeforeNetwork ==
    (env.host \in {NoOption, ""} \/ env.token \in {NoOption, ""}) =>
        /\ AllCalls = <<>>
        /\ pipelines = <<>>
        /\ selectedProjects = <<>>
        /\ \A i \in Tasks : tpc[i] = "idle"
        /\ opc \in {"main", "exited"}
        /\ opc = "exited" => exitCode = 1

C16_Witness ==
    /\ env.host = "https://gitlab.example.com"
    /\ env.token = ""
    /\ env.auto = "true"
    /\ OptionProjectGiven
    /\ FilterByName(ProjectNamesOf(ProjectOption)) # <<>>
    /\ opc = "exited"
    /\ exitCode = 1

\* the entries of e whose key has 'VARIABLE_' as its first part
Prefixed(e) == SelectSeq(e, LAMBDA en : en.key[1] = "VARIABLE_")

\* C17: for every environment, getPipelineVariables returns one entry for each
\* entry whose key starts with 'VARIABLE_' and none for the others, in the
\* order of the environment; the key of each is the environment's key without
\* its first 'VARIABLE_', whatever follows it, and the value is the
\* environment's value.  The request of triggerPipeline carries that list.
C17_VariableExtraction ==
    LET vs == getPipelineVariables(env.vars)
        pre == Prefixed(env.vars) IN
    /\ Len(vs) = Len(pre)
    /\ \A k \in DOMAIN vs :
          /\ vs[k].key = Tail(pre[k].key)
          /\ vs[k].value = pre[k].value
    /\ \A n \in DOMAIN pipelines :
          pipelines[n].variables = (IF pre = <<>> THEN {} ELSE {vs})

C17_Witness ==
    /\ env.vars = <<[key |-> <<"OTHER">>, value |-> "prod"],
                    [key |-> <<"VARIABLE_", "VARIABLE_", "X">>, value |-> ""]>>
    /\ pipelines # <<>>
    /\ pipelines[1].variables = {<<[key |-> <<"VARIABLE_", "X">>, value |-> ""]>>}
    /\ opc = "exited"

\* the ids of the projects of projects.json named in the string s given
\* with -p: a name is what stands between two commas, without the blanks
\* around it
NamedIn(s) ==
    {AllProjects[k].id : k \in
        {x \in DOMAIN AllProjects :
            \E n \in DOMAIN ProjectNamesOf(s) : ProjectNamesOf(s)[n] = <<AllProjects[x].name>>}}

\* C18 as stated: whenever -p is given, every createPipeline call is for a
\* project named in it, on the branch given with -b or on 'main' when -b is
\* not given; and when it names no project, the run makes no createPipeline
\* call and ends with code 1.
C18_Original ==
    options.project # {} =>
        /\ \A k \in DOMAIN Creates : Creates[k].project \in NamedIn(ProjectOption)
        /\ \A n \in DOMAIN pipelines :
              pipelines[n].ref = (IF options.branch = NoOption THEN "main" ELSE options.branch)
        /\ NamedIn(ProjectOption) = {} =>
              /\ Creates = <<>>
              /\ opc = "exited" => exitCode = 1

\* C18, amended: whenever -p is given with a string that is not empty, every
\* createPipeline call is for a project named in it, on the branch given with
\* -b or on 'main' when -b is not given or is empty; and when it names no
\* project, the run makes no createPipeline call and ends with code 1.
C18_CommandLineSelection ==
    (options.project # {} /\ ProjectOption # <<>>) =>
        /\ \A k \in DOMAIN Creates : Creates[k].project \in NamedIn(ProjectOption)
        /\ branch \in {NoOption, IF options.branch \in {NoOption, ""}
                                 THEN "main" ELSE options.branch}
        /\ \A n \in DOMAIN pipelines : pipelines[n].ref = branch
        /\ NamedIn(ProjectOption) = {} =>
              /\ Creates = <<>>
              /\ opc \in {"main", "runWithOptions", "exited"}
              /\ opc = "exited" => exitCode = 1

C18_Witness ==
    /\ options.project = {<<" ", ProjectNames[2], ",">>}
    /\ options.branch = "develop"
    /\ opc = "exited"
    /\ exitCode = 0
    /\ Len(Creates) = 1
    /\ Creates[1].project = AllProjects[2].id
    /\ pipelines[1].ref = "develop"

\* the cascade of call i ended with its "No manual jobs found" line
DoneEmpty(i) ==
    /\ tpc[i] = "returned"
    /\ Last(EventsOf(i)) = Console(i, "No manual jobs found")

\* C19: a cascade never makes more than maxRetries polls, nor more plays than
\* its discovering poll held jobs of status manual; requests being answered
\* and timers firing, a cascade that has started ends, with all its plays
\* made, with nothing found, or with an error; and one whose poll found
\* manual jobs ends with an error or with every discovered job played.
C19_CascadeTerminates ==
    /\ [](\A i \in Tasks :
            /\ Len(Polls(i)) <= maxRetries
            /\ Plays(i) # <<>> =>
                  /\ Polls(i) # <<>>
                  /\ Len(Plays(i)) <= Len(Last(Polls(i)).manual))
    /\ \A i \in Tasks :
          (tpc[i] = "initialWait") ~> (Done(i) \/ DoneEmpty(i) \/ tpc[i] = "rejected")
    /\ \A i \in Tasks :
          (Polls(i) # <<>> /\ Last(Polls(i)).manual # <<>>) ~>
              \/ tpc[i] = "rejected"
              \/ /\ Done(i)
                 /\ AllOk(Plays(i))
                 /\ Len(Plays(i)) = Len(Last(Polls(i)).manual)

C19_Witness ==
    \E i \in Tasks :
        /\ Done(i)
        /\ Len(Polls(i)) = maxRetries
        /\ Len(Plays(i)) = 2
        /\ AllOk(Plays(i))

\* the ids of the jobs the pipeline with id pid may have
JobIdsOf(pid) == {JobIdOf(pid, s) : s \in JobSlots}

\* C20: every listJobs call made for a target carries the target's project id
\* and the id of the pipeline its own createPipeline call returned; every
\* playJob call carries the same project id and the id of a job of that
\* pipeline, one that the cascade's poll returned with the status manual; and
\* no call of a target carries the pipeline id, or the id of a job, of the
\* pipeline of another target.
C20_CascadeUsesOwnPipeline ==
    \A b \in DOMAIN events :
        LET e == events[b] IN
        e.op \in {"listJobs", "playJob"} =>
            /\ CreatesOf(e.tgt) # <<>>
            /\ Last(CreatesOf(e.tgt)).res = Ok
            /\ e.project = selectedProjects[e.tgt].id
            /\ e.project = Last(CreatesOf(e.tgt)).project
            /\ e.pipeline = Last(CreatesOf(e.tgt)).pipeline
            /\ e.op = "playJob" =>
                  /\ e.job \in JobIdsOf(Last(CreatesOf(e.tgt)).pipeline)
                  /\ Polls(e.tgt) # <<>>
                  /\ e.job \in Range(Last(Polls(e.tgt)).manual)
            /\ \A j \in Tasks :
                  (j # e.tgt /\ pipelineId[j] # 0) =>
                      /\ e.pipeline # pipelineId[j]
                      /\ e.job \notin JobIdsOf(pipelineId[j])

C20_Witness ==
    /\ Len(selectedProjects) = 2
    /\ Plays(1) # <<>>
    /\ AllOk(Plays(1))
    /\ Plays(2) # <<>>
    /\ Last(Plays(2)).res = Ok
    /\ Last(Plays(2)).pipeline = PipelineIdOf(2)
    /\ Last(Polls(2)).pipeline = PipelineIdOf(2)
    /\ Last(Plays(2)).project = AllProjects[2].id

\* the line printed after the loop over the selected projects
SuccessLine == Console(0, "All pipelines triggered successfully!")

Reported == \E k \in DOMAIN events : events[k] = SuccessLine

\* some createPipeline, listJobs or playJob call of the run failed
SomeCallFailed == \E k \in DOMAIN AllCalls : AllCalls[k].res # Ok

\* C21: the success line is the last thing a run does, and when it is printed
\* every selected project has had its createPipeline call and, the cascade
\* being on, its cascade, all without a failed call, and the process ends
\* with code 0; once a call has failed, the line is never printed, the loop
\* makes no further iteration, and the process ends, with code 1.
C21_SuccessOnlyOnFullSuccess ==
    /\ [](Reported =>
            /\ Last(events) = SuccessLine
            /\ opc = "exited" /\ exitCode = 0
            /\ ~SomeCallFailed
            /\ Len(selectedProjects) > 0
            /\ Len(Creates) = Len(selectedProjects)
            /\ \A i \in 1..Len(selectedProjects) :
                  /\ tpc[i] = "returned"
                  /\ Len(CreatesOf(i)) = 1
                  /\ env.auto = "true" => (Done(i) \/ DoneEmpty(i)))
    /\ [](SomeCallFailed =>
            /\ ~Reported
            /\ opc \in {"await", "exited"}
            /\ opc = "exited" => exitCode = 1)
    /\ SomeCallFailed ~> (opc = "exited" /\ exitCode = 1 /\ ~Reported)

\* the first project went through, cascade included; a play of the second
\* failed: no success line, exit code 1
C21_Witness ==
    /\ Interactive
    /\ Len(selectedProjects) = 2
    /\ Done(1)
    /\ Plays(2) # <<>>
    /\ Last(Plays(2)).res # Ok
    /\ opc = "exited"
    /\ exitCode = 1
    /\ ~Reported

\* the projects of projects.json named in the string s given with -p, each
\* once, in the order of projects.json
NamedProjects(s) == SelectSeq(AllProjects, LAMBDA p : p.id \in NamedIn(s))

\* C22: in a run with a -p string that is not empty, the projects the loop
\* goes over are the projects of projects.json that the string names, each
\* once and in the order of projects.json, whatever the order of the names,
\* their repetitions and the names that match nothing; the createPipeline
\* calls are made in that order, one per project, and a run that ended with
\* code 1 though the string names a project has not even loaded the projects
\* or has had a failed call.
C22_ProjectsJsonOrder ==
    OptionProjectGiven =>
        /\ selectedProjects \in {<<>>, NamedProjects(ProjectOption)}
        /\ idx > 0 => selectedProjects = NamedProjects(ProjectOption)
        /\ Len(Creates) <= Len(NamedProjects(ProjectOption))
        /\ \A k \in DOMAIN Creates :
              Creates[k].project = NamedProjects(ProjectOption)[k].id
        /\ (opc = "exited" /\ exitCode = 0) =>
              Len(Creates) = Len(NamedProjects(ProjectOption))
        /\ (opc = "exited" /\ exitCode = 1 /\ NamedIn(ProjectOption) # {}) =>
              \/ selectedProjects = <<>> /\ Creates = <<>>
              \/ SomeCallFailed

\* the second project of projects.json is named first: it is triggered second
C22_Witness ==
    /\ options.project = {<<ProjectNames[2], ",", ProjectNames[1]>>}
    /\ opc = "exited"
    /\ exitCode = 0
    /\ Len(Creates) = 2
    /\ Creates[1].project = AllProjects[1].id
    /\ Creates[2].project = AllProjects[2].id

====
